---- MODULE Spec2Model ----
(***************************************************************************)
(* Balcony solar statistics dashboard (src/app.py).                        *)
(*                                                                         *)
(* Number representation.  Energies are decimal literals with at most      *)
(* three fractional digits; they are held as integers in milli-kWh.        *)
(* PRICE_PER_KWH is held in 1e-4 euro, so a cost is an integer in 1e-7     *)
(* euro.  A float64 quotient is held as the exact reduced fraction it      *)
(* approximates, or as one of the IEEE non-finite values the vectorised    *)
(* division produces.  Rounding to two decimals and the ".0f" format are   *)
(* round-half-to-even, computed by long division.                          *)
(***************************************************************************)
EXTENDS Integers, Sequences, FiniteSets, TLC

VARIABLES data, df, fig_radar, fig_bar, metrics, page, calls, pc

vars == <<data, df, fig_radar, fig_bar, metrics, page, calls, pc>>

\* Largest produced / fed-in value (in whole kWh) of a substituted month.
MaxKwh == 3

\* Largest number of presentation calls made after get_data in SpecCalls.
MaxCalls == 4

\* range(12): the number of rows of the table.
Months == 12

\* 0.2858 euro per kWh, in 1e-4 euro.
PRICE_PER_KWH == 2858

Abs(n) == IF n < 0 THEN -n ELSE n

RECURSIVE GCD(_, _)
GCD(a, b) == IF b = 0 THEN a ELSE GCD(b, a % b)

(***************************************************************************)
(* float64 values                                                          *)
(***************************************************************************)
NaN == [cls |-> "nan", num |-> 0, den |-> 0]

PosInf == [cls |-> "inf", num |-> 0, den |-> 0]

NegInf == [cls |-> "-inf", num |-> 0, den |-> 0]

ZeroDivisionError == [cls |-> "raise", num |-> 0, den |-> 0]

\* The finite value n / d (d > 0), in lowest terms.
Finite(n, d) ==
    LET g == GCD(Abs(n), d)
    IN  [cls |-> "finite", num |-> n \div g, den |-> d \div g]

\* Division of plain Python numbers: a zero divisor raises.
truediv_scalar(n, d) == IF d = 0 THEN ZeroDivisionError ELSE Finite(n, d)

\* The "/" of a float64 Series (and of numpy scalars): IEEE division, a zero
\* divisor yields NaN or a signed infinity and nothing is raised.
truediv(n, d) ==
    IF d = 0
    THEN IF n = 0 THEN NaN ELSE IF n > 0 THEN PosInf ELSE NegInf
    ELSE Finite(n, d)

\* "* 100" on a float64 value.
times100(x) == IF x.cls = "finite" THEN Finite(100 * x.num, x.den) ELSE x

\* n * scale / d rounded half-to-even to an integer (d > 0, scale > 0),
\* by long division so that no intermediate exceeds 32 bits.
RoundDiv(n, d, scale) ==
    LET q  == n \div d
        r  == n % d
        x  == r * scale
        q2 == x \div d
        r2 == x % d
        lo == q * scale + q2
    IN  IF r2 < d - r2 THEN lo
        ELSE IF r2 > d - r2 THEN lo + 1
        ELSE IF lo % 2 = 0 THEN lo ELSE lo + 1

\* round(x, 2): the nearest multiple of 0.01; non-finite values pass through.
round2(x) ==
    IF x.cls = "finite" THEN Finite(RoundDiv(x.num, x.den, 100), 100) ELSE x

\* Series.sum(): left-to-right sum of a column.
RECURSIVE sum_skipping_last(_)
sum_skipping_last(s) ==
    IF Len(s) <= 1 THEN 0 ELSE Head(s) + sum_skipping_last(Tail(s))

RECURSIVE sum(_)
sum(s) == IF s = <<>> THEN 0 ELSE Head(s) + sum(Tail(s))

(***************************************************************************)
(* get_data                                                                *)
(***************************************************************************)
month_name ==
    <<"Jan", "Feb", "Mar", "Apr", "May", "Jun",
      "Jul", "Aug", "Sep", "Oct", "Nov", "Dec">>

month_number == [i \in 1..Months |-> i]

energy_produced_misread ==
    <<30860, 30020, 60770, 71760, 116680, 124777,
      108350, 91740, 103620, 52670, 24130, 13000>>

energy_produced ==
    <<30860, 30020, 60770, 71760, 116680, 124787,
      108350, 91740, 103620, 52670, 24130, 13000>>

energy_fed_into_grid ==
    <<6060, 4490, 19380, 20790, 41140, 37710,
      32430, 21000, 32570, 16990, 3610, 2310>>

\* The literal dict of get_data.
DataLiteral ==
    [month_name           |-> month_name,
     month_number         |-> month_number,
     energy_produced      |-> energy_produced,
     energy_fed_into_grid |-> energy_fed_into_grid]

\* The literal, and the literal with one month's reading replaced by a small
\* (produced, fed) pair: zero production and fed > produced included.
Datasets ==
    {DataLiteral} \cup
    {[DataLiteral EXCEPT !.energy_produced[m]      = 1000 * p,
                         !.energy_fed_into_grid[m] = 1000 * f] :
        m \in 1..Months, p \in 0..MaxKwh, f \in 0..MaxKwh}

\* df["energy_produced"] - df["energy_fed_into_grid"], row by row.
energy_consumed_shifted(produced, fed) ==
    [i \in 1..Months |-> produced[i] - fed[(i % Months) + 1]]

energy_consumed(produced, fed) ==
    [i \in 1..Months |-> produced[i] - fed[i]]

\* df["energy_consumed"] / df["energy_produced"] * 100, row by row.
energy_consumed_relative_of_fed(consumed, produced) ==
    [i \in 1..Months |-> times100(truediv(produced[i] - consumed[i], produced[i]))]

energy_consumed_relative(consumed, produced) ==
    [i \in 1..Months |-> times100(truediv(consumed[i], produced[i]))]

get_data(d) ==
    LET consumed == energy_consumed(d.energy_produced, d.energy_fed_into_grid)
    IN  [month_name               |-> d.month_name,
         month_number             |-> d.month_number,
         energy_produced          |-> d.energy_produced,
         energy_fed_into_grid     |-> d.energy_fed_into_grid,
         energy_consumed          |-> consumed,
         energy_consumed_relative |->
             energy_consumed_relative(consumed, d.energy_produced)]

\* No table yet.
NoDf ==
    [month_name               |-> <<>>,
     month_number             |-> <<>>,
     energy_produced          |-> <<>>,
     energy_fed_into_grid     |-> <<>>,
     energy_consumed          |-> <<>>,
     energy_consumed_relative |-> <<>>]

Raises(col) == \E i \in DOMAIN col : col[i].cls = "raise"

(***************************************************************************)
(* plot_radar                                                              *)
(***************************************************************************)
NoRadar == [theta |-> <<>>, produced |-> <<>>, fed |-> <<>>]

radar_traces(d) ==
    [theta    |-> d.month_name,
     produced |-> d.energy_produced,
     fed      |-> d.energy_fed_into_grid]

\* plot_radar reads three columns and assigns nothing to the table.
plot_radar_df(d) == d

(***************************************************************************)
(* plot_bar                                                                *)
(***************************************************************************)
NoBar == [x |-> <<>>, y |-> <<>>, line |-> <<>>]

\* A two-decimal value in hundredths.
Centi(y) == y.num * (100 \div y.den)

\* y = df["energy_consumed_relative"].round(2)
bar_y_recomputed(d) ==
    [i \in 1..Months |->
        round2(times100(truediv(d.energy_fed_into_grid[i], d.energy_produced[i])))]

bar_y(d) == [i \in 1..Months |-> round2(d.energy_consumed_relative[i])]

\* round(df["energy_consumed"].sum() / df["energy_produced"].sum() * 100, 2)
average_of_monthly(d) ==
    LET y == bar_y(d)
    IN  IF \E i \in 1..Months : y[i].cls # "finite"
        THEN NaN
        ELSE Finite(RoundDiv(sum([i \in 1..Months |-> Centi(y[i])]), Months, 1), 100)

average_self_consumed_energy(d) ==
    round2(times100(truediv(sum(d.energy_consumed), sum(d.energy_produced))))

bar_traces(d) ==
    [x    |-> d.month_name,
     y    |-> bar_y(d),
     line |-> [i \in 1..Months |-> average_self_consumed_energy(d)]]

\* .round(2) returns a new Series; plot_bar assigns nothing to the table.
plot_bar_df_inplace(d) == [d EXCEPT !.energy_consumed_relative = bar_y(d)]

plot_bar_df(d) == d

(***************************************************************************)
(* write_statistics                                                        *)
(***************************************************************************)
NoMetrics ==
    [total_produced |-> 0, total_consumed |-> 0, cost_saved |-> 0,
     shown |-> <<>>]

\* total_consumed * PRICE_PER_KWH, in 1e-7 euro.
cost_saved(total_consumed) == total_consumed * PRICE_PER_KWH

\* f"{v:.0f}" of a value held as n / unit.
format0(n, unit) == RoundDiv(n, unit, 1)

statistics(d) ==
    LET total_produced == sum(d.energy_produced)
        total_consumed == sum(d.energy_consumed)
        cost           == cost_saved(total_consumed)
    IN  [total_produced |-> total_produced,
         total_consumed |-> total_consumed,
         cost_saved     |-> cost,
         shown          |-> <<format0(total_produced, 1000),
                              format0(total_consumed, 1000),
                              format0(cost, 10000000)>>]

\* write_statistics reads two columns and assigns nothing to the table.
write_statistics_df(d) == d

(***************************************************************************)
(* The operations as steps: what each does to the table, the figures, the  *)
(* page and the call log.  pre is what the caller renders just before.     *)
(***************************************************************************)
call_get_data ==
    LET t == get_data(data)
    IN  /\ df' = IF Raises(t.energy_consumed_relative) THEN df ELSE t
        /\ calls' = Append(calls, "get_data")
        /\ UNCHANGED <<data, fig_radar, fig_bar, metrics, page>>

get_data_raises == Raises(get_data(data).energy_consumed_relative)

call_plot_radar(pre) ==
    /\ fig_radar' = radar_traces(df)
    /\ df' = plot_radar_df(df)
    /\ page' = page \o pre \o <<"plotly_chart">>
    /\ calls' = Append(calls, "plot_radar")
    /\ UNCHANGED <<data, fig_bar, metrics>>

plot_bar_raises == Raises(<<average_self_consumed_energy(df)>>)

call_plot_bar(pre) ==
    /\ fig_bar' = IF plot_bar_raises THEN fig_bar ELSE bar_traces(df)
    /\ df' = plot_bar_df(df)
    /\ page' = IF plot_bar_raises THEN page \o pre
               ELSE page \o pre \o <<"plotly_chart">>
    /\ calls' = Append(calls, "plot_bar")
    /\ UNCHANGED <<data, fig_radar, metrics>>

call_write_statistics(pre) ==
    /\ metrics' = statistics(df)
    /\ df' = write_statistics_df(df)
    /\ page' = page \o pre \o <<"metric", "metric", "metric">>
    /\ calls' = Append(calls, "write_statistics")
    /\ UNCHANGED <<data, fig_radar, fig_bar>>

(***************************************************************************)
(* main: one pass of the script                                            *)
(***************************************************************************)
main_next_retrying(at) ==
    CASE at = "intro"            -> "get_data"
      [] at = "get_data"         -> "plot_radar"
      [] at = "plot_radar"       -> "plot_bar"
      [] at = "plot_bar"         -> "write_statistics"
      [] at = "write_statistics" -> "plot_bar"
      [] OTHER                   -> "done"

main_next(at) ==
    CASE at = "intro"            -> "get_data"
      [] at = "get_data"         -> "plot_radar"
      [] at = "plot_radar"       -> "plot_bar"
      [] at = "plot_bar"         -> "write_statistics"
      [] at = "write_statistics" -> "conclusion"
      [] OTHER                   -> "done"

Init ==
    /\ data \in Datasets
    /\ df = NoDf
    /\ fig_radar = NoRadar
    /\ fig_bar = NoBar
    /\ metrics = NoMetrics
    /\ page = <<>>
    /\ calls = <<>>
    /\ pc = "intro"

MainIntro ==
    /\ pc = "intro"
    /\ page' = page \o <<"title", "markdown">>
    /\ pc' = main_next(pc)
    /\ UNCHANGED <<data, df, fig_radar, fig_bar, metrics, calls>>

MainGetData ==
    /\ pc = "get_data"
    /\ call_get_data
    /\ pc' = IF get_data_raises THEN "aborted" ELSE main_next(pc)

MainPlotRadar ==
    /\ pc = "plot_radar"
    /\ call_plot_radar(<<"subheader">>)
    /\ pc' = main_next(pc)

MainPlotBar ==
    /\ pc = "plot_bar"
    /\ call_plot_bar(<<"subheader">>)
    /\ pc' = IF plot_bar_raises THEN "aborted" ELSE main_next(pc)

MainWriteStatistics ==
    /\ pc = "write_statistics"
    /\ call_write_statistics(<<"subheader">>)
    /\ pc' = main_next(pc)

MainConclusion ==
    /\ pc = "conclusion"
    /\ page' = page \o <<"subheader", "markdown">>
    /\ pc' = main_next(pc)
    /\ UNCHANGED <<data, df, fig_radar, fig_bar, metrics, calls>>

Next ==
    \/ MainIntro
    \/ MainGetData
    \/ MainPlotRadar
    \/ MainPlotBar
    \/ MainWriteStatistics
    \/ MainConclusion

Spec == Init /\ [][Next]_vars

(***************************************************************************)
(* The operations called directly: get_data once, then the presentation    *)
(* operations in any order, at most MaxCalls calls in all.                 *)
(***************************************************************************)
CallsLeft == Len(calls) <= MaxCalls

CallGetData ==
    /\ pc = "intro"
    /\ call_get_data
    /\ pc' = IF get_data_raises THEN "aborted" ELSE "ready"

CallPlotRadar ==
    /\ pc = "ready"
    /\ CallsLeft
    /\ call_plot_radar(<<>>)
    /\ UNCHANGED pc

CallPlotBar ==
    /\ pc = "ready"
    /\ CallsLeft
    /\ call_plot_bar(<<>>)
    /\ pc' = IF plot_bar_raises THEN "aborted" ELSE pc

CallWriteStatistics ==
    /\ pc = "ready"
    /\ CallsLeft
    /\ call_write_statistics(<<>>)
    /\ UNCHANGED pc

NextCalls ==
    \/ CallGetData
    \/ CallPlotRadar
    \/ CallPlotBar
    \/ CallWriteStatistics

SpecCalls == Init /\ [][NextCalls]_vars

(***************************************************************************)
(* Vocabulary of the properties.  These are written out independently of   *)
(* the operators above.                                                    *)
(***************************************************************************)
Derived == df # NoDf

RadarDrawn == fig_radar # NoRadar

BarDrawn == fig_bar # NoBar

MetricsShown == metrics # NoMetrics

IsLiteral == data = DataLiteral

ZeroMonth == \E i \in 1..Months : data.energy_produced[i] = 0

\* col[n] + ... + col[1], added from the last row to the first.
RECURSIVE TotalDown(_, _)
TotalDown(col, n) == IF n = 0 THEN 0 ELSE col[n] + TotalDown(col, n - 1)

Total(col) == TotalDown(col, Months)

\* c / 100 is a multiple of 0.01 nearest to n / d (d > 0).
IsNearestCenti(c, n, d) ==
    LET w == c \div 100
        s == c % 100
        r == n - w * d
    IN  /\ -d <= r
        /\ r <= 2 * d
        /\ 2 * Abs(100 * r - s * d) <= d

\* c / 100 is exactly n / d (d > 0).
IsExactCenti(c, n, d) ==
    LET w == c \div 100
        s == c % 100
        r == n - w * d
    IN  /\ 0 <= r
        /\ r < d
        /\ 100 * r = s * d

\* y is x rounded to two decimals.
IsRounded(y, x) ==
    IF x.cls = "finite"
    THEN /\ y.cls = "finite"
         /\ 100 % y.den = 0
         /\ IsNearestCenti(Centi(y), x.num, x.den)
    ELSE y = x

Shown(kind) == \E k \in DOMAIN page : page[k] = kind

CountShown(kind) == Cardinality({k \in DOMAIN page : page[k] = kind})

(***************************************************************************)
(* C1.  The year summary of the hardcoded dataset.                         *)
(***************************************************************************)
\* C1 as stated: for the hardcoded dataset the totals are 828.377 kWh produced
\* and 550.637 kWh consumed, the average is 66.47 % and the cost saved 157.37.
C1_SummaryAsStated ==
    (IsLiteral /\ BarDrawn /\ MetricsShown) =>
        /\ metrics.total_produced = 828377
        /\ metrics.total_consumed = 550637
        /\ Centi(fig_bar.line[1]) = 6647
        /\ RoundDiv(metrics.cost_saved, 100000, 1) = 15737

\* C1 amended: for the hardcoded dataset the totals are 828.387 kWh produced
\* and 589.907 kWh consumed, the average is 71.21 % and the cost saved 168.60.
C1_SummaryOfLiteral ==
    (IsLiteral /\ BarDrawn /\ MetricsShown) =>
        /\ metrics.total_produced = 828387
        /\ metrics.total_consumed = 589907
        /\ Centi(fig_bar.line[1]) = 7121
        /\ RoundDiv(metrics.cost_saved, 100000, 1) = 16860

C1_Witness == IsLiteral /\ BarDrawn /\ MetricsShown /\ pc = "done"

(***************************************************************************)
(* C2.  Row i of energy_consumed is produced minus fed of month i, for the *)
(* 12 months in calendar order.                                            *)
(***************************************************************************)
C2_ConsumedIsDifference ==
    Derived =>
        /\ DOMAIN df.energy_consumed = 1..Months
        /\ \A i \in 1..Months :
              /\ df.month_number[i] = i
              /\ df.month_name[i] = month_name[i]
              /\ df.energy_consumed[i] =
                    data.energy_produced[i] - data.energy_fed_into_grid[i]

C2_Witness ==
    /\ Derived
    /\ df.energy_consumed[1] = 24800
    /\ \E i \in 1..Months : df.energy_consumed[i] < 0

(***************************************************************************)
(* C3.  For a month with production > 0 the relative value is              *)
(* consumed / produced * 100, and lies in [0, 100] when 0 <= fed <=        *)
(* produced.                                                               *)
(***************************************************************************)
C3_RelativeIsPercentage ==
    Derived =>
        \A i \in 1..Months :
            data.energy_produced[i] > 0 =>
                LET x == df.energy_consumed_relative[i]
                    k == data.energy_produced[i] \div x.den
                IN  /\ x.cls = "finite"
                    /\ x.den > 0
                    /\ x.den * k = data.energy_produced[i]
                    /\ x.num * k = 100 * df.energy_consumed[i]
                    /\ (/\ 0 <= data.energy_fed_into_grid[i]
                        /\ data.energy_fed_into_grid[i] <= data.energy_produced[i])
                       => (0 <= x.num /\ x.num <= 100 * x.den)

C3_Witness ==
    /\ Derived
    /\ \E i \in 1..Months :
          /\ data.energy_produced[i] > 0
          /\ data.energy_fed_into_grid[i] = 0
          /\ df.energy_consumed_relative[i] = Finite(100, 1)
    /\ \E i \in 1..Months :
          /\ data.energy_produced[i] > 0
          /\ df.energy_consumed_relative[i].num > 0
          /\ df.energy_consumed_relative[i].num < 100 * df.energy_consumed_relative[i].den

(***************************************************************************)
(* C4.  The reference line of the bar chart.                               *)
(***************************************************************************)
\* Twelve times the mean of the monthly percentages, in hundredths, lies in
\* MeanTimes12Low .. MeanTimes12Low + 12 (each month rounded down).
MeanTimes12Low ==
    Total([i \in 1..Months |->
             (100 * df.energy_consumed_relative[i].num)
                 \div df.energy_consumed_relative[i].den])

LineDiffersFromMean ==
    \/ Months * Centi(fig_bar.line[1]) < MeanTimes12Low
    \/ Months * Centi(fig_bar.line[1]) > MeanTimes12Low + Months

\* C4 as stated: the value drawn as the reference line equals the ratio of
\* the yearly totals times 100, and is not the mean of the monthly values.
C4_LineIsRatioAsStated ==
    BarDrawn =>
        \A i \in 1..Months :
            /\ fig_bar.line[i].cls = "finite"
            /\ IsExactCenti(Centi(fig_bar.line[i]),
                            100 * Total(df.energy_consumed),
                            Total(df.energy_produced))

\* C4 amended: the value drawn as the reference line, the same for all 12
\* months, is the ratio of the yearly totals times 100 rounded to two
\* decimals; for the hardcoded dataset it is not the mean of the monthly
\* values.
C4_LineIsRoundedRatio ==
    BarDrawn =>
        /\ \A i \in 1..Months :
              /\ fig_bar.line[i].cls = "finite"
              /\ 100 % fig_bar.line[i].den = 0
              /\ IsNearestCenti(Centi(fig_bar.line[i]),
                                100 * Total(df.energy_consumed),
                                Total(df.energy_produced))
        /\ IsLiteral => LineDiffersFromMean

C4_Witness ==
    /\ BarDrawn
    /\ IsLiteral
    /\ fig_bar.line[Months] = Finite(7121, 100)
    /\ MeanTimes12Low > Months * 7400

(***************************************************************************)
(* C5.  total_produced and total_consumed are the sums of the 12 monthly   *)
(* values whatever the order of summation, and cost_saved is               *)
(* total_consumed times the price 0.2858.                                  *)
(***************************************************************************)
C5_TotalsAndCost ==
    MetricsShown =>
        /\ metrics.total_produced = Total(data.energy_produced)
        /\ metrics.total_consumed = Total(df.energy_consumed)
        /\ metrics.cost_saved = 2858 * Total(df.energy_consumed)
        /\ PRICE_PER_KWH = 2858

C5_Witness ==
    /\ MetricsShown
    /\ ~IsLiteral
    /\ metrics.total_consumed > 0
    /\ metrics.cost_saved > 0
    /\ metrics.shown[3] > 0

(***************************************************************************)
(* C6.  A month with zero production.                                      *)
(***************************************************************************)
\* C6 as stated: when a month's production is zero the render is aborted and
\* neither a chart nor a metric is rendered.
C6_ZeroAbortsAsStated ==
    ZeroMonth =>
        /\ pc # "done"
        /\ ~Shown("plotly_chart")
        /\ ~Shown("metric")

\* C6 amended: when a month's production is zero nothing is raised: that
\* month's relative value is NaN (nothing fed in) or minus infinity, the
\* render is never aborted and is always at one of the steps of main.
C6_ZeroYieldsNonFinite ==
    /\ pc # "aborted"
    /\ pc \in {"intro", "get_data", "plot_radar", "plot_bar",
               "write_statistics", "conclusion", "done"}
    /\ (ZeroMonth /\ pc \notin {"intro", "get_data"}) => Derived
    /\ Derived =>
          \A i \in 1..Months :
              data.energy_produced[i] = 0 =>
                  df.energy_consumed_relative[i] =
                      IF data.energy_fed_into_grid[i] = 0 THEN NaN ELSE NegInf

C6_Witness ==
    /\ ZeroMonth
    /\ pc = "done"
    /\ CountShown("plotly_chart") = 2
    /\ CountShown("metric") = 3
    /\ \E i \in 1..Months : fig_bar.y[i] = NegInf

(***************************************************************************)
(* C7.  Where the displayed statistics come from.                          *)
(***************************************************************************)
\* The numbers held by the table get_data returned.
TableNumbers ==
    UNION {{df.month_number[i], df.energy_produced[i],
            df.energy_fed_into_grid[i], df.energy_consumed[i]} : i \in 1..Months}

SuppliedPercentage(y) ==
    \E i \in 1..Months :
        \/ y = df.energy_consumed_relative[i]
        \/ IsRounded(y, df.energy_consumed_relative[i])

\* C7 as stated: every displayed statistic (monthly percentages, yearly
\* totals, average percentage, cost saved) is a value of the table supplied by
\* get_data.
C7_AllSuppliedAsStated ==
    pc = "done" =>
        /\ \A i \in 1..Months : SuppliedPercentage(fig_bar.y[i])
        /\ \A i \in 1..Months : SuppliedPercentage(fig_bar.line[i])
        /\ metrics.total_produced \in TableNumbers
        /\ metrics.total_consumed \in TableNumbers
        /\ metrics.cost_saved \in TableNumbers

\* C7 amended: the radar traces and the bars are columns of the table
\* supplied by get_data (the bars rounded to two decimals, row by row); the
\* average, the yearly totals and the cost saved are not in the table:
\* plot_bar and write_statistics compute them from its columns.
C7_ColumnsSuppliedTotalsComputed ==
    /\ RadarDrawn =>
          /\ fig_radar.theta = df.month_name
          /\ fig_radar.produced = df.energy_produced
          /\ fig_radar.fed = df.energy_fed_into_grid
    /\ BarDrawn =>
          /\ fig_bar.x = df.month_name
          /\ \A i \in 1..Months :
                IsRounded(fig_bar.y[i], df.energy_consumed_relative[i])
          /\ \A i \in 1..Months :
                IsRounded(fig_bar.line[i],
                          [cls |-> "finite",
                           num |-> 100 * Total(df.energy_consumed),
                           den |-> Total(df.energy_produced)])
    /\ MetricsShown =>
          /\ metrics.total_produced = Total(df.energy_produced)
          /\ metrics.total_consumed = Total(df.energy_consumed)
          /\ metrics.cost_saved = PRICE_PER_KWH * Total(df.energy_consumed)
          /\ metrics.total_produced \notin TableNumbers
          /\ metrics.total_consumed \notin TableNumbers

C7_Witness ==
    /\ pc = "done"
    /\ RadarDrawn
    /\ BarDrawn
    /\ MetricsShown
    /\ \E i \in 1..Months : fig_bar.y[i] # df.energy_consumed_relative[i]
    /\ \A i \in 1..Months : ~SuppliedPercentage(fig_bar.line[i])

(***************************************************************************)
(* C8.  Once get_data has returned, no call of plot_radar, plot_bar or     *)
(* write_statistics, in any order and number, changes the table: the       *)
(* rounded values are copies.                                              *)
(***************************************************************************)
C8_TableUnchanged == [][Derived => df' = df]_vars

C8_Witness ==
    /\ calls = <<"get_data", "write_statistics", "plot_bar", "plot_radar", "plot_bar">>
    /\ df = get_data(data)
    /\ \E i \in 1..Months : fig_bar.y[i] # df.energy_consumed_relative[i]
    /\ metrics.shown[1] * 1000 # Total(df.energy_produced)

(***************************************************************************)
(* C10.  main is a single pass: get_data once and first, then plot_radar,  *)
(* plot_bar and write_statistics once each in that order on the table      *)
(* get_data returned, then the end; nothing is repeated.                   *)
(***************************************************************************)
PassOrder == <<"get_data", "plot_radar", "plot_bar", "write_statistics">>

C10_SinglePass ==
    /\ Len(calls) <= Len(PassOrder)
    /\ \A k \in DOMAIN calls : calls[k] = PassOrder[k]
    /\ pc = "done" => calls = PassOrder
    /\ Len(calls) >= 1 => (Derived /\ df.energy_produced = data.energy_produced)
    /\ RadarDrawn => fig_radar.produced = df.energy_produced
    /\ BarDrawn => Len(calls) >= 3
    /\ MetricsShown => Len(calls) = 4

C10_Witness ==
    /\ pc = "done"
    /\ calls = PassOrder
    /\ page = <<"title", "markdown", "subheader", "plotly_chart",
                "subheader", "plotly_chart",
                "subheader", "metric", "metric", "metric",
                "subheader", "markdown">>
====
